---- MODULE Spec2Model ----
(***************************************************************************)
(* IONEX document parser (IonexHandler, src/ionex.py) and TEC map lookup   *)
(* (TecMap.get_tec, src/tecmap.py) of tec-mapper.                          *)
(*                                                                         *)
(* A text is a sequence of tokens: numeric literals, non-numeric words,    *)
(* newlines and the literal marker strings the parser searches for.        *)
(* Numeric literals are held in quarter units (87.5 is 350), so every      *)
(* coordinate the model uses is an integer; a literal is an integer        *)
(* literal of the text exactly when it is a whole number of units.         *)
(***************************************************************************)
EXTENDS Integers, Sequences, FiniteSets, TLC

\* Quarter units per 1.0 of a numeric literal.
Scale == 4

\* ------------------------------------------------------------------ tokens
Num(v) == [t |-> "num", v |-> v]
Int_(n) == Num(n * Scale)
Word == [t |-> "word", v |-> 0]
NL == [t |-> "nl", v |-> 0]
Marker(m) == [t |-> m, v |-> 0]

EXPONENT == "EXPONENT"
LAT_MARKER == "LAT1 / LAT2 / DLAT"
LON_MARKER == "LON1 / LON2 / DLON"
START_OF_TEC_MAP == "START OF TEC MAP"
END_OF_TEC_MAP == "END OF TEC MAP"
EPOCH_OF_CURRENT_MAP == "EPOCH OF CURRENT MAP"
LAT_ROW_MARKER == "LAT/LON1/LON2/DLON/H"

\* Optional values: None is <<>>, a present value x is <<x>>.
None == <<>>
Some(x) == <<x>>

\* ------------------------------------------------------- python primitives
\* `marker in s`
Contains(s, m) == \E i \in 1..Len(s) : s[i].t = m

FirstIndex(s, m) ==
    CHOOSE i \in 1..Len(s) : s[i].t = m /\ \A j \in 1..(i - 1) : s[j].t # m

\* s.split(marker): the pieces between the occurrences of the marker.
RECURSIVE str_split(_, _)
str_split(s, m) ==
    IF ~Contains(s, m) THEN <<s>>
    ELSE LET f == FirstIndex(s, m)
         IN  <<SubSeq(s, 1, f - 1)>> \o str_split(SubSeq(s, f + 1, Len(s)), m)

\* s.splitlines(): a final newline ends the last line, it opens no empty one.
RECURSIVE splitlines(_)
splitlines(s) ==
    IF s = <<>> THEN <<>>
    ELSE IF ~Contains(s, "nl") THEN <<s>>
    ELSE LET f == FirstIndex(s, "nl")
         IN  <<SubSeq(s, 1, f - 1)>> \o splitlines(SubSeq(s, f + 1, Len(s)))

\* s.split(): the whitespace-separated items (newlines are whitespace).
RECURSIVE split_ws(_)
split_ws(s) ==
    IF s = <<>> THEN <<>>
    ELSE IF Head(s).t = "nl" THEN split_ws(Tail(s))
    ELSE <<Head(s)>> \o split_ws(Tail(s))

\* re.split(".*" + marker, s): a match runs from the start of a line (or from
\* the end of the previous match) to the last marker of that line, "." not
\* matching a newline and ".*" being greedy.
RECURSIVE re_split(_, _)
re_split(s, m) ==
    IF ~Contains(s, m) THEN <<s>>
    ELSE LET f == FirstIndex(s, m)
             nls == {i \in 1..(f - 1) : s[i].t = "nl"}
             start == IF nls = {} THEN 1
                      ELSE 1 + CHOOSE i \in nls : \A j \in nls : j <= i
             after == {i \in (f + 1)..Len(s) : s[i].t = "nl"}
             eol == IF after = {} THEN Len(s) + 1
                    ELSE CHOOSE i \in after : \A j \in after : i <= j
             ms == {i \in f..(eol - 1) : s[i].t = m}
             last == CHOOSE i \in ms : \A j \in ms : j <= i
         IN  <<SubSeq(s, 1, start - 1)>> \o re_split(SubSeq(s, last + 1, Len(s)), m)

\* float(item) succeeds on a numeric literal only.
IsFloat(tok) == tok.t = "num"
\* int(item) succeeds on an integer literal only ("2.5" is refused).
IsInt(tok) == tok.t = "num" /\ tok.v % Scale = 0
IntOf(tok) == tok.v \div Scale

\* round(n / d) of Python 3: to the nearest integer, a tie to the even one.
round_div(n, d) ==
    LET nn == IF d < 0 THEN -n ELSE n
        dd == IF d < 0 THEN -d ELSE d
        q == nn \div dd
        r == nn % dd
    IN  IF 2 * r < dd THEN q
        ELSE IF 2 * r > dd THEN q + 1
        ELSE IF q % 2 = 0 THEN q ELSE q + 1

RECURSIVE Pow10(_)
Pow10(n) == IF n <= 0 THEN 1 ELSE 10 * Pow10(n - 1)

\* ------------------------------------------------------------ MapBounds
\* MapBounds(): the bounds a document has before any declaration is read.
MapBounds ==
    [min_lat |-> -350, max_lat |-> 350, dlat |-> 10,
     min_lon |-> -720, max_lon |-> 720, dlon |-> 20]

\* num_rows / num_cols divide by the step: a step of 0 raises.
CountRaises(b) == b.dlat = 0 \/ b.dlon = 0
num_rows(b) == round_div(b.max_lat - b.min_lat, b.dlat) + 1
num_cols(b) == round_div(b.max_lon - b.min_lon, b.dlon) + 1
map_shape(b) == <<num_rows(b), num_cols(b)>>

\* ------------------------------------------------------------ header
\* As LineBefore, but of the text before the last occurrence of the marker.
LineBeforeLast(s, m) ==
    LET pieces == str_split(s, m)
        n == Len(pieces) - 1
        before == IF n = 1 THEN pieces[1]
                  ELSE SubSeq(s, 1, Len(s) - Len(pieces[n + 1]) - 1)
        lines == splitlines(before)
    IN  IF lines = <<>> THEN [exc |-> "IndexError", line |-> <<>>]
        ELSE [exc |-> "", line |-> lines[Len(lines)]]

\* The text before the first occurrence of the marker, its last line.
\* "".splitlines() is empty, so [-1] raises IndexError.
LineBefore(s, m) ==
    LET before == str_split(s, m)[1]
        lines == splitlines(before)
    IN  IF lines = <<>> THEN [exc |-> "IndexError", line |-> <<>>]
        ELSE [exc |-> "", line |-> lines[Len(lines)]]

\* As get_exponent, but a line that is not a single integer gives 0.
get_exponent_default(ionex_str) ==
    IF ionex_str = None THEN [exc |-> "", value |-> None]
    ELSE IF ~Contains(ionex_str[1], EXPONENT) THEN [exc |-> "", value |-> Some(0)]
    ELSE LET lb == LineBefore(ionex_str[1], EXPONENT)
             items == split_ws(lb.line)
         IN  IF lb.exc # "" \/ Len(items) # 1 \/ ~IsInt(items[1])
             THEN [exc |-> "", value |-> Some(0)]
             ELSE [exc |-> "", value |-> Some(IntOf(items[1]))]

\* IonexHandler._get_exponent: [exc, value], value None for an absent text.
get_exponent(ionex_str) ==
    IF ionex_str = None THEN [exc |-> "", value |-> None]
    ELSE IF ~Contains(ionex_str[1], EXPONENT) THEN [exc |-> "", value |-> Some(0)]
    ELSE LET lb == LineBefore(ionex_str[1], EXPONENT)
             items == split_ws(lb.line)
         IN  IF lb.exc # "" THEN [exc |-> lb.exc, value |-> None]
             ELSE IF Len(items) # 1 \/ ~IsInt(items[1])
                  THEN [exc |-> "ValueError", value |-> None]
             ELSE [exc |-> "", value |-> Some(IntOf(items[1]))]

AxisMarker(bound_type_str) ==
    IF bound_type_str = "lat" THEN LAT_MARKER ELSE LON_MARKER

\* The assignments of _get_bound: first item to min, second to max, third
\* to the step of the axis.
assign_bound(b, bound_type_str, bound_list) ==
    IF bound_type_str = "lat"
    THEN [b EXCEPT !.min_lat = bound_list[1].v, !.max_lat = bound_list[2].v,
                   !.dlat = bound_list[3].v]
    ELSE [b EXCEPT !.min_lon = bound_list[1].v, !.max_lon = bound_list[2].v,
                   !.dlon = bound_list[3].v]

\* As get_bound, but a declaration that cannot be read leaves the default.
get_bound_lenient(ionex_str, b, bound_type_str) ==
    IF ionex_str = None THEN [exc |-> "", bounds |-> b]
    ELSE IF ~Contains(ionex_str[1], AxisMarker(bound_type_str))
         THEN [exc |-> "", bounds |-> b]
    ELSE LET lb == LineBefore(ionex_str[1], AxisMarker(bound_type_str))
             bound_list == split_ws(lb.line)
         IN  IF \/ lb.exc # ""
                \/ \E i \in 1..Len(bound_list) : ~IsFloat(bound_list[i])
                \/ Len(bound_list) # 3
             THEN [exc |-> "", bounds |-> b]
             ELSE [exc |-> "", bounds |-> assign_bound(b, bound_type_str, bound_list)]

\* IonexHandler._get_bound: [exc, bounds].
get_bound(ionex_str, b, bound_type_str) ==
    IF ionex_str = None THEN [exc |-> "", bounds |-> b]
    ELSE IF ~Contains(ionex_str[1], AxisMarker(bound_type_str))
         THEN [exc |-> "", bounds |-> b]
    ELSE LET lb == LineBefore(ionex_str[1], AxisMarker(bound_type_str))
             bound_list == split_ws(lb.line)
         IN  IF lb.exc # "" THEN [exc |-> lb.exc, bounds |-> b]
             ELSE IF \E i \in 1..Len(bound_list) : ~IsFloat(bound_list[i])
                  THEN [exc |-> "ValueError", bounds |-> b]
             ELSE IF Len(bound_list) # 3 THEN [exc |-> "ValueError", bounds |-> b]
             ELSE [exc |-> "", bounds |-> assign_bound(b, bound_type_str, bound_list)]


\* ------------------------------------------------------------ maps
\* Smallest exponent the documents of the model declare is -MaxDownscale; a
\* grid value is held in units of 1 / (Scale * 10^MaxDownscale).
MaxDownscale == 1

IsLeap(y) == (y % 4 = 0 /\ y % 100 # 0) \/ y % 400 = 0

DaysInMonth(y, m) ==
    IF m = 2 THEN (IF IsLeap(y) THEN 29 ELSE 28)
    ELSE IF m \in {4, 6, 9, 11} THEN 30 ELSE 31

\* datetime.datetime(*epoch_list): year, month, day and up to four more
\* integers; an eighth positional argument would be tzinfo.
datetime(l) ==
    LET arg(i) == IF i <= Len(l) THEN l[i] ELSE 0
        dt == [year |-> arg(1), month |-> arg(2), day |-> arg(3), hour |-> arg(4),
               minute |-> arg(5), second |-> arg(6), microsecond |-> arg(7)]
    IN  IF Len(l) < 3 \/ Len(l) > 7 THEN [exc |-> "TypeError", epoch |-> dt]
        ELSE IF \/ dt.year < 1 \/ dt.year > 9999
                \/ dt.month < 1 \/ dt.month > 12
                \/ dt.day < 1 \/ dt.day > DaysInMonth(dt.year, dt.month)
                \/ dt.hour < 0 \/ dt.hour > 23
                \/ dt.minute < 0 \/ dt.minute > 59
                \/ dt.second < 0 \/ dt.second > 59
                \/ dt.microsecond < 0 \/ dt.microsecond > 999999
             THEN [exc |-> "ValueError", epoch |-> dt]
        ELSE [exc |-> "", epoch |-> dt]

\* get_epoch of _process_tec_map_str: [exc, epoch].
get_epoch(map_str) ==
    LET lb == LineBefore(map_str, EPOCH_OF_CURRENT_MAP)
        epoch_list == split_ws(lb.line)
    IN  IF lb.exc # "" THEN [exc |-> lb.exc, epoch |-> datetime(<<>>).epoch]
        ELSE IF \E i \in 1..Len(epoch_list) : ~IsInt(epoch_list[i])
             THEN [exc |-> "ValueError", epoch |-> datetime(<<>>).epoch]
        ELSE datetime([i \in 1..Len(epoch_list) |-> IntOf(epoch_list[i])])

\* map_array[ix, :] = lat_vals_list on an array of the given shape, ix
\* counted from 1 here: "" when the assignment succeeds.
row_exc(ix, lat_vals_list, shape) ==
    IF ix > shape[1] THEN "IndexError"
    ELSE IF \E i \in 1..Len(lat_vals_list) : ~IsFloat(lat_vals_list[i])
         THEN "ValueError"
    ELSE IF Len(lat_vals_list) # shape[2] /\ Len(lat_vals_list) # 1
         THEN "ValueError"
    ELSE ""

\* The row the assignment stores: the items, a single item broadcast.
row_values(lat_vals_list, shape) ==
    [j \in 1..shape[2] |->
        IF Len(lat_vals_list) = shape[2] THEN lat_vals_list[j].v
        ELSE lat_vals_list[1].v]

\* TecMap(epoch, map_array, bounds)
TecMap(epoch, map_arr, b) == [epoch |-> epoch, map_arr |-> map_arr, bounds |-> b]

\* map_array * 10 ** exponent, in the value unit of the model.
scale_value(v, exponent) == v * Pow10(exponent + MaxDownscale)

\* IonexHandler._process_tec_map_str: [exc, map], map the TecMap appended.
process_tec_map_str(map_str, exponent, b) ==
    LET e == get_epoch(map_str)
        shape == map_shape(b)
        rows == Tail(re_split(map_str, LAT_ROW_MARKER))
        items(ix) == split_ws(rows[ix])
        bad == {ix \in 1..Len(rows) : row_exc(ix, items(ix), shape) # ""}
        first_bad == CHOOSE ix \in bad : \A other \in bad : ix <= other
        arr == [ix \in 1..shape[1] |->
                  IF ix <= Len(rows)
                  THEN [j \in 1..shape[2] |->
                          scale_value(row_values(items(ix), shape)[j], exponent[1])]
                  ELSE [j \in 1..shape[2] |-> 0]]
    IN  IF e.exc # "" THEN [exc |-> e.exc, map |-> None]
        ELSE IF CountRaises(b) THEN [exc |-> "ZeroDivisionError", map |-> None]
        ELSE IF shape[1] < 0 \/ shape[2] < 0 THEN [exc |-> "ValueError", map |-> None]
        ELSE IF bad # {} THEN [exc |-> row_exc(first_bad, items(first_bad), shape),
                                map |-> None]
        ELSE [exc |-> "",
              map |-> Some(TecMap(e.epoch, [shape |-> shape, a |-> arr], b))]

\* As map_strs, but the piece after the last END OF TEC MAP is kept.
map_strs_all(ionex_str) ==
    IF ionex_str = None THEN <<>>
    ELSE re_split(ionex_str[1], END_OF_TEC_MAP)

\* The map strings _get_tec_maps loops over: the text split at the lines
\* holding END OF TEC MAP, the last piece dropped.
map_strs(ionex_str) ==
    IF ionex_str = None THEN <<>>
    ELSE LET pieces == re_split(ionex_str[1], END_OF_TEC_MAP)
         IN  SubSeq(pieces, 1, Len(pieces) - 1)

\* One iteration of the loop of _get_tec_maps: the part after the first
\* START OF TEC MAP ([1] of the split raises when there is none), processed.
tec_map_step(map_str, exponent, b) ==
    LET parts == str_split(map_str, START_OF_TEC_MAP)
    IN  IF Len(parts) < 2 THEN [exc |-> "IndexError", map |-> None]
        ELSE process_tec_map_str(parts[2], exponent, b)

\* As get_tec_map, but the last map of the list with the hour.
RECURSIVE get_tec_map_last(_, _)
get_tec_map_last(tec_maps, hour) ==
    IF tec_maps = <<>> THEN None
    ELSE IF tec_maps[Len(tec_maps)].epoch.hour = hour
         THEN Some(tec_maps[Len(tec_maps)])
    ELSE get_tec_map_last(SubSeq(tec_maps, 1, Len(tec_maps) - 1), hour)

\* IonexHandler.get_tec_map: the first map of the list with the hour, or None.
RECURSIVE get_tec_map(_, _)
get_tec_map(tec_maps, hour) ==
    IF tec_maps = <<>> THEN None
    ELSE IF Head(tec_maps).epoch.hour = hour THEN Some(Head(tec_maps))
    ELSE get_tec_map(Tail(tec_maps), hour)

\* As tec_index, but scaled by the number of rows and columns.
tec_index_count(map_arr, lat, lon) ==
    [i |-> round_div((350 - lat) * map_arr.shape[1], 2 * 350),
     j |-> round_div((720 + lon) * map_arr.shape[2], 1440)]

\* TecMap.get_tec: the indices computed from the coordinate ...
tec_index(map_arr, lat, lon) ==
    [i |-> round_div((350 - lat) * (map_arr.shape[1] - 1), 2 * 350),
     j |-> round_div((720 + lon) * (map_arr.shape[2] - 1), 1440)]

\* ... and self._map_arr[i, j]: a negative index counts from the end, an
\* index outside [-n, n) raises IndexError.
array_item(map_arr, i, j) ==
    LET n == map_arr.shape[1]
        m == map_arr.shape[2]
    IN  IF i < -n \/ i >= n \/ j < -m \/ j >= m
        THEN [exc |-> "IndexError", row |-> 0, col |-> 0, value |-> 0]
        ELSE LET r == IF i < 0 THEN i + n ELSE i
                 c == IF j < 0 THEN j + m ELSE j
             IN  [exc |-> "", row |-> r, col |-> c, value |-> map_arr.a[r + 1][c + 1]]

\* TecMap.get_tec: [i, j, item], item what self._map_arr[i, j] gives.
get_tec(tec_map, lat, lon) ==
    LET ix == tec_index(tec_map.map_arr, lat, lon)
    IN  [i |-> ix.i, j |-> ix.j, item |-> array_item(tec_map.map_arr, ix.i, ix.j)]


\* ------------------------------------------------------------ documents
\* The documents the model constructs handlers from are rendered from a
\* description: a header (exponent, latitude and longitude declarations),
\* the map sections in order, and what follows the last section.
MaxSections == 2

Line(items, m) == items \o <<Marker(m), NL>>

ExponentKinds ==
    {"absent", "m1", "two", "float", "dup", "dupint", "word", "first", "blank"}

ExponentText(kind) ==
    CASE kind = "absent" -> <<>>
      [] kind = "m1" -> Line(<<Int_(-1)>>, EXPONENT)
      [] kind = "two" -> Line(<<Int_(1), Int_(-1)>>, EXPONENT)
      [] kind = "float" -> Line(<<Num(2)>>, EXPONENT)
      [] kind = "dup" -> Line(<<Int_(-1)>>, EXPONENT) \o Line(<<Word>>, EXPONENT)
      [] kind = "dupint" -> Line(<<Int_(-1)>>, EXPONENT) \o Line(<<Int_(0)>>, EXPONENT)
      [] kind = "word" -> Line(<<Word>>, EXPONENT)
      [] kind = "first" -> Line(<<>>, EXPONENT)
      [] kind = "blank" -> <<NL>> \o Line(<<>>, EXPONENT)

\* The sections are written for a grid of SectionRows x SectionCols, which
\* the "ionex" declarations declare.
SectionRows == 2
SectionCols == 2

AxisKinds ==
    {"absent", "ionex", "spec", "two", "four", "word", "bare", "dup", "dupbad"}

\* The three numbers of a declaration: "ionex" a two-point axis written as
\* IONEX files write it (latitude north to south with a negative step),
\* "spec" the axis of a global map with a positive step.
AxisNumbers(bound_type_str, kind) ==
    IF bound_type_str = "lat"
    THEN (IF kind = "spec" THEN <<Num(350), Num(-350), Num(10)>>
          ELSE <<Num(10 * (SectionRows - 1)), Num(0), Num(-10)>>)
    ELSE (IF kind = "spec" THEN <<Num(-720), Num(720), Num(20)>>
          ELSE <<Num(0), Num(20 * (SectionCols - 1)), Num(20)>>)

AxisText(bound_type_str, kind) ==
    LET m == AxisMarker(bound_type_str)
        good == AxisNumbers(bound_type_str, "ionex")
    IN  CASE kind = "absent" -> <<>>
          [] kind \in {"ionex", "spec"} -> Line(AxisNumbers(bound_type_str, kind), m)
          [] kind = "two" -> Line(SubSeq(good, 1, 2), m)
          [] kind = "four" -> Line(good \o <<Num(0)>>, m)
          [] kind = "word" -> Line(<<good[1], Word, good[3]>>, m)
          [] kind = "bare" -> Line(<<>>, m)
          [] kind = "dup" -> Line(good, m) \o Line(<<Word>>, m)
          [] kind = "dupbad" -> Line(SubSeq(good, 1, 2), m) \o Line(good, m)

\* Kinds whose first declaration line holds exactly three numbers.
AxisDeclared(kind) == kind \in {"ionex", "spec", "dup"}
\* Kinds whose marker is present with a line before it that does not.
AxisMalformed(kind) == kind \in {"two", "four", "word", "bare", "dupbad"}

SectionKinds ==
    {"good", "epoch5", "epochWord", "rowShort", "rowLong", "rowWord",
     "rowsMany", "noStart", "scalar"}

SectionValue(sec, r, c) == sec.hour + sec.minute + 10 * r + c

SectionEpochItems(sec) ==
    LET six == <<Int_(2020), Int_(2), Int_(29), Int_(sec.hour), Int_(sec.minute),
                 Int_(0)>>
    IN  CASE sec.kind = "epoch5" -> SubSeq(six, 1, 5)
          [] sec.kind = "epochWord" -> <<Int_(2020), Int_(2), Word, Int_(sec.hour),
                                        Int_(sec.minute), Int_(0)>>
          [] OTHER -> six

SectionRowItems(sec, r) ==
    LET full == [c \in 1..SectionCols |-> Int_(SectionValue(sec, r, c))]
    IN  CASE sec.kind = "scalar" -> <<full[1]>>
          [] sec.kind = "rowShort" /\ r = SectionRows -> <<full[1]>>
          [] sec.kind = "rowLong" /\ r = SectionRows -> full \o <<Int_(0)>>
          [] sec.kind = "rowWord" /\ r = SectionRows -> <<Word>> \o Tail(full)
          [] OTHER -> full

RECURSIVE SectionRowsText(_, _, _)
SectionRowsText(sec, r, n) ==
    IF r > n THEN <<>>
    ELSE Line(<<Num(10), Num(0)>>, LAT_ROW_MARKER) \o SectionRowItems(sec, r) \o <<NL>>
         \o SectionRowsText(sec, r + 1, n)

\* The text of a section, without its END OF TEC MAP line.
SectionBody(sec) ==
    (IF sec.kind = "noStart" THEN <<Int_(1), NL>>
     ELSE Line(<<Int_(1)>>, START_OF_TEC_MAP))
    \o Line(SectionEpochItems(sec), EPOCH_OF_CURRENT_MAP)
    \o SectionRowsText(sec, 1,
                       IF sec.kind = "rowsMany" THEN SectionRows + 1 ELSE SectionRows)

SectionText(sec) == SectionBody(sec) \o Line(<<Int_(1)>>, END_OF_TEC_MAP)

RECURSIVE SectionsText(_)
SectionsText(secs) ==
    IF secs = <<>> THEN <<>> ELSE SectionText(Head(secs)) \o SectionsText(Tail(secs))

FooterKinds == {"none", "open"}

\* "open": after the last END OF TEC MAP, a section that is never ended.
FooterText(kind) ==
    IF kind = "none" THEN <<>>
    ELSE <<Word, NL>> \o SectionBody([kind |-> "good", hour |-> 23, minute |-> 0])

DocText(d) ==
    ExponentText(d.exp) \o AxisText("lat", d.lat) \o AxisText("lon", d.lon)
    \o <<Word, NL>> \o SectionsText(d.sections) \o FooterText(d.footer)

\* IonexHandler(None), and IonexHandler(text) for a rendered document.
AbsentDoc ==
    [absent |-> TRUE, exp |-> "absent", lat |-> "absent", lon |-> "absent",
     sections |-> <<>>, footer |-> "none"]

Doc(exp, lat, lon, sections, footer) ==
    [absent |-> FALSE, exp |-> exp, lat |-> lat, lon |-> lon,
     sections |-> sections, footer |-> footer]

IonexStr(d) == IF d.absent THEN None ELSE Some(DocText(d))

Section(kind, hour, minute) == [kind |-> kind, hour |-> hour, minute |-> minute]

\* Well-formed sections differ in their epochs; the others are at 12:00.
SectionMenu ==
    {Section("good", 0, 0), Section("good", 12, 0), Section("good", 12, 30)}
    \cup {Section(k, 12, 0) : k \in SectionKinds \ {"good"}}

SectionSeqs(n) == UNION {[1..len -> SectionMenu] : len \in 0..n}

\* Every header, with no section or one.
HeaderDocs ==
    {Doc(e, la, lo, secs, "none") :
        e \in ExponentKinds, la \in AxisKinds, lo \in AxisKinds,
        secs \in {<<>>, <<Section("good", 12, 0)>>, <<Section("scalar", 12, 0)>>}}

\* Every sequence of sections under the header of a 2 x 2 grid.
BodyDocs ==
    {Doc("m1", "ionex", "ionex", secs, f) :
        secs \in SectionSeqs(MaxSections), f \in FooterKinds}

Docs == {AbsentDoc} \cup HeaderDocs \cup BodyDocs


\* ------------------------------------------------------------ state
VARIABLES
    doc,        \* the description the text was rendered from
    ionex_str,  \* the argument of IonexHandler(...): None or Some(text)
    lat, lon,   \* the coordinate get_tec is asked for, in quarter degrees
    pc,         \* where the construction is: "init", "lat", "lon", "maps",
                \* "done" (returned) or "raised" (left by an exception)
    exponent,   \* self.exponent
    bounds,     \* self.bounds
    tec_maps,   \* self._tec_maps
    k,          \* the map string the loop of _get_tec_maps is at, 0 before it
    exc,        \* the exception the construction raised, "" for none
    handler,    \* what the caller holds: None, or Some(the handler)
    call,       \* the last query on the handler and what it returned
    files,      \* the cache directory: what each cache path holds
    run,        \* the last IonexDownloader(...) and what it did
    app_init,   \* TecMapperApplication._init
    selections, \* TecMapperApplication._selections
    ionex_handler,  \* TecMapperApplication._ionex_handler, with the
                \* selection it was built for
    plots,      \* TecMapperApplication._ui_elements["plots"]
    curdoc_root,    \* the children of curdoc().roots[0]
    app_exc     \* the exception the last event handler raised, "" for none

handler_vars == <<doc, ionex_str, lat, lon, pc, exponent, bounds, tec_maps, k,
                  exc, handler, call>>

app_vars == <<app_init, selections, ionex_handler, plots, curdoc_root, app_exc>>

vars == <<handler_vars, files, run, app_vars>>

inputs == <<doc, ionex_str, lat, lon>>

NoCall ==
    [op |-> "", hour |-> 0, map |-> 0, ret |-> None, exc |-> "",
     i |-> 0, j |-> 0, row |-> 0, col |-> 0, value |-> 0]

\* --- the cache directory and the selections of the application
\* The dates of the date picker and the analysis centres of the dropdown
\* the model selects among, the hours of the hour slider and the values of
\* the max-TEC slider.
Dates ==
    {[year |-> 2020, month |-> 2, day |-> 29],
     [year |-> 2020, month |-> 3, day |-> 1]}
Centers == {"c2p", "cod"}
Hours == {12, 13}
MaxTecs == {50, 100}

\* strftime("%j"), strftime("%y") and strftime("%Y") of the selected date.
RECURSIVE DaysBefore(_, _)
DaysBefore(y, m) == IF m = 1 THEN 0 ELSE DaysInMonth(y, m - 1) + DaysBefore(y, m - 1)
doy(date) == DaysBefore(date.year, date.month) + date.day
year(date) == date.year % 100
year_centry(date) == date.year

\* f"{analysis_center}g{doy}0.{year}i.Z"
filename(sel) ==
    <<sel.analysis_center, "g", doy(sel.date_str), 0, year(sel.date_str), "i.Z">>

\* cache_dir / "ionex" / year_centry / doy / filename
cache_path(sel) ==
    <<"ionex", year_centry(sel.date_str), doy(sel.date_str), filename(sel)>>

CachePaths ==
    {cache_path([analysis_center |-> c, date_str |-> d]) : c \in Centers, d \in Dates}

\* What a cache path holds: no file, a file of no bytes, the bytes a broken
\* transfer left, or the compressed text of a document.
FileKinds == {"missing", "empty", "partial", "full", "bad"}

\* Path.exists() and stat().st_size > 0
ionex_file_ok(file) == file \notin {"missing", "empty"}

NoFiles == [p \in CachePaths |-> "missing"]

NoRun ==
    [path |-> <<>>, before |-> "missing", attempted |-> FALSE, outcome |-> "",
     exc |-> "", result |-> None]

InitialSelections(starting_date) ==
    [analysis_center |-> "c2p", date_str |-> starting_date, hour |-> 12,
     max_tec |-> 100]

NoApplication ==
    /\ app_init = FALSE
    /\ selections = InitialSelections(CHOOSE d \in Dates : d.month = 2)
    /\ ionex_handler = None
    /\ plots = <<>>
    /\ curdoc_root = <<>>
    /\ app_exc = ""

Start(d, la, lo) ==
    /\ doc = d
    /\ ionex_str = IonexStr(d)
    /\ lat = la
    /\ lon = lo
    /\ pc = "init"
    /\ exponent = None
    /\ bounds = MapBounds
    /\ tec_maps = <<>>
    /\ k = 0
    /\ exc = ""
    /\ handler = None
    /\ call = NoCall
    /\ files = NoFiles
    /\ run = NoRun
    /\ NoApplication

Init == \E d \in Docs : Start(d, 0, 0)

\* Coordinates up to CoordMargin grid steps outside the default bounds:
\* latitudes every 1.25 and longitudes every 2.5 degrees, so that the
\* grid points and the midpoints between them are met.
CoordMargin == 4
LatAll == {5 * n : n \in -(70 + 2 * CoordMargin)..(70 + 2 * CoordMargin)}
LonAll == {10 * n : n \in -(72 + 2 * CoordMargin)..(72 + 2 * CoordMargin)}
LatFew == {-350, 0, 350, 350 + 10 * CoordMargin}
LonFew == {-720, 0, 720, 720 + 20 * CoordMargin}
Coords == (LatAll \X {0}) \cup ({0} \X LonAll) \cup (LatFew \X LonFew)

\* A document with the default bounds and one with declared ones, each
\* with one map.
GridDocs ==
    {Doc("absent", "absent", "absent", <<Section("scalar", 12, 0)>>, "none"),
     Doc("m1", "ionex", "ionex", <<Section("good", 12, 0)>>, "none")}

InitGrid == \E d \in GridDocs : \E c \in Coords : Start(d, c[1], c[2])

Raise(e) ==
    /\ pc' = "raised"
    /\ exc' = e

\* __init__, lines 116-120: self.exponent = self._get_exponent(), then
\* self.bounds = MapBounds().
InitExponent ==
    /\ pc = "init"
    /\ LET r == get_exponent(ionex_str)
       IN  IF r.exc # "" THEN Raise(r.exc) /\ UNCHANGED exponent
           ELSE pc' = "lat" /\ exponent' = r.value /\ UNCHANGED exc
    /\ UNCHANGED <<files, run, app_vars, inputs, bounds, tec_maps, k,
                 handler, call>>

\* self._get_bound("lat")
GetBoundLat ==
    /\ pc = "lat"
    /\ LET r == get_bound(ionex_str, bounds, "lat")
       IN  IF r.exc # "" THEN Raise(r.exc) /\ UNCHANGED bounds
           ELSE pc' = "lon" /\ bounds' = r.bounds /\ UNCHANGED exc
    /\ UNCHANGED <<files, run, app_vars, inputs, exponent, tec_maps, k,
                 handler, call>>

\* self._get_bound("lon"), then self._tec_maps = [] and the entry of
\* _get_tec_maps.
GetBoundLon ==
    /\ pc = "lon"
    /\ LET r == get_bound(ionex_str, bounds, "lon")
       IN  IF r.exc # "" THEN Raise(r.exc) /\ UNCHANGED <<bounds, tec_maps, k>>
           ELSE /\ pc' = "maps"
                /\ bounds' = r.bounds
                /\ tec_maps' = <<>>
                /\ k' = 1
                /\ UNCHANGED exc
    /\ UNCHANGED <<files, run, app_vars, inputs, exponent, handler, call>>

\* One iteration of the loop of _get_tec_maps.
ProcessTecMapStr ==
    /\ pc = "maps"
    /\ k <= Len(map_strs(ionex_str))
    /\ LET r == tec_map_step(map_strs(ionex_str)[k], exponent, bounds)
       IN  IF r.exc # "" THEN Raise(r.exc) /\ UNCHANGED <<tec_maps, k>>
           ELSE /\ tec_maps' = Append(tec_maps, r.map[1])
                /\ k' = k + 1
                /\ UNCHANGED <<pc, exc>>
    /\ UNCHANGED <<files, run, app_vars, inputs, exponent, bounds, handler,
                 call>>

\* The loop is over: __init__ returns and the caller holds the handler.
Return ==
    /\ pc = "maps"
    /\ k > Len(map_strs(ionex_str))
    /\ pc' = "done"
    /\ handler' = Some([exponent |-> exponent, bounds |-> bounds,
                        tec_maps |-> tec_maps])
    /\ UNCHANGED <<files, run, app_vars, inputs, exponent, bounds,
                 tec_maps, k, exc, call>>

QueryHours == 0..23

\* handler.get_tec_map(hour)
GetTecMap ==
    /\ handler # None
    /\ \E hour \in QueryHours :
          call' = [NoCall EXCEPT !.op = "get_tec_map", !.hour = hour,
                                 !.ret = get_tec_map(handler[1].tec_maps, hour)]
    /\ UNCHANGED <<files, run, app_vars, inputs, pc, exponent, bounds,
                 tec_maps, k, exc, handler>>

\* handler.tec_maps[map].get_tec(lat, lon)
GetTec ==
    /\ handler # None
    /\ \E m \in 1..Len(handler[1].tec_maps) :
          LET r == get_tec(handler[1].tec_maps[m], lat, lon)
          IN  call' = [NoCall EXCEPT !.op = "get_tec", !.map = m,
                                     !.i = r.i, !.j = r.j, !.exc = r.item.exc,
                                     !.row = r.item.row, !.col = r.item.col,
                                     !.value = r.item.value]
    /\ UNCHANGED <<files, run, app_vars, inputs, pc, exponent, bounds,
                 tec_maps, k, exc, handler>>

Next ==
    \/ InitExponent
    \/ GetBoundLat
    \/ GetBoundLon
    \/ ProcessTecMapStr
    \/ Return
    \/ GetTecMap
    \/ GetTec

Spec == Init /\ [][Next]_vars

\* The lookups of TecMap.get_tec over the coordinates.
SpecGrid == InitGrid /\ [][Next]_vars


\* ------------------------------------------------------------ retrieval
\* IonexHandler(ionex_str) as one call: [exc, handler].
RECURSIVE get_tec_maps(_, _, _, _, _)
get_tec_maps(strs, n, exp, b, acc) ==
    IF n > Len(strs) THEN [exc |-> "", tec_maps |-> acc]
    ELSE LET r == tec_map_step(strs[n], exp, b)
         IN  IF r.exc # "" THEN [exc |-> r.exc, tec_maps |-> acc]
             ELSE get_tec_maps(strs, n + 1, exp, b, Append(acc, r.map[1]))

\* The steps of __init__ run once each, in order: the exponent, the two
\* bounds, then the maps, which are not reached when a step before raised.
The(S) == CHOOSE x \in S : TRUE

IonexHandler(text) ==
    The({The({The({
        IF e.exc # "" THEN [exc |-> e.exc, handler |-> None]
        ELSE IF la.exc # "" THEN [exc |-> la.exc, handler |-> None]
        ELSE IF lo.exc # "" THEN [exc |-> lo.exc, handler |-> None]
        ELSE IF m.exc # "" THEN [exc |-> m.exc, handler |-> None]
        ELSE [exc |-> "",
              handler |-> Some([exponent |-> e.value, bounds |-> lo.bounds,
                                tec_maps |-> m.tec_maps])] :
            m \in {IF e.exc = "" /\ la.exc = "" /\ lo.exc = ""
                   THEN get_tec_maps(strs, 1, e.value, lo.bounds, <<>>)
                   ELSE [exc |-> "", tec_maps |-> <<>>]}}) :
          lo \in {get_bound(text, la.bounds, "lon")}}) :
        e \in {get_exponent(text)}, la \in {get_bound(text, MapBounds, "lat")},
        strs \in {map_strs(text)}})

\* The documents the server holds: one with maps at 0:00 and 12:00, and one
\* whose only section has a malformed epoch line. CutDoc is the first cut
\* after its first map.
FullDoc ==
    Doc("m1", "ionex", "ionex",
        <<Section("good", 0, 0), Section("good", 12, 0)>>, "none")
BadDoc == Doc("m1", "ionex", "ionex", <<Section("epochWord", 12, 0)>>, "none")
CutDoc == Doc("m1", "ionex", "ionex", <<Section("good", 0, 0)>>, "none")

FullText == Some(DocText(FullDoc))
BadText == Some(DocText(BadDoc))
CutText == Some(DocText(CutDoc))

\* What curl.perform() can do: fail before a byte is written ("error"), fail
\* after some were ("broken"), or end well having written nothing ("empty")
\* or the compressed document.
DownloadOutcomes == {"error", "broken", "empty", "full", "bad"}

\* What the destination holds after open(dest_path, "wb") and the transfer.
Written(outcome) ==
    CASE outcome = "error" -> "empty"
      [] outcome = "broken" -> "partial"
      [] OTHER -> outcome

\* IonexDownloader._download_ionex: pycurl.error is caught.
download_ionex(outcome) == [exc |-> "", file |-> Written(outcome)]

\* TecMapperApplication._download_ionex: pycurl.error is not caught.
app_download_ionex(outcome) ==
    [exc |-> IF outcome \in {"error", "broken"} THEN "pycurl.error" ELSE "",
     file |-> Written(outcome)]

\* _read_ionex: None for a file that is not ok, else
\* unlzw3.unlzw(file_path).decode("utf-8"). Of the bytes of a broken transfer
\* unlzw gives the text up to the cut or raises ValueError.
read_ionex(file) ==
    IF ~ionex_file_ok(file) THEN {[exc |-> "", str |-> None]}
    ELSE IF file = "partial"
         THEN {[exc |-> "ValueError", str |-> None],
               [exc |-> "", str |-> CutText]}
    ELSE IF file = "bad" THEN {[exc |-> "", str |-> BadText]}
    ELSE {[exc |-> "", str |-> FullText]}

\* The branch of _get_ionex_str with a cache path, after the download if
\* there was one: an empty file is unlinked, then the file is read.
read_cached(file, attempted, outcome) ==
    LET kept == IF file # "missing" /\ ~ionex_file_ok(file) THEN "missing"
                ELSE file
    IN  {[attempted |-> attempted, outcome |-> outcome, file |-> kept,
          exc |-> r.exc, result |-> r.str] : r \in read_ionex(kept)}

\* IonexDownloader._get_ionex_str with a cache path holding `file`: the runs
\* it can take.
get_ionex_str(file) ==
    IF ~ionex_file_ok(file)
    THEN UNION {read_cached(download_ionex(o).file, TRUE, o) : o \in DownloadOutcomes}
    ELSE read_cached(file, FALSE, "")

\* The outcomes of curl.perform() the application is run against.
AppDownloadOutcomes == {"error", "empty", "full", "bad"}

\* TecMapperApplication._get_ionex_str (cache_dir is a Path): as above, but
\* an exception of the download leaves the function at once.
app_get_ionex_str(file) ==
    IF ~ionex_file_ok(file)
    THEN UNION {LET d == app_download_ionex(o)
                IN  IF d.exc # ""
                    THEN {[attempted |-> TRUE, outcome |-> o, file |-> d.file,
                           exc |-> d.exc, result |-> None]}
                    ELSE read_cached(d.file, TRUE, o) : o \in AppDownloadOutcomes}
    ELSE read_cached(file, FALSE, "")


\* ------------------------------------------------------------ application
\* The elements of the UI: the message, a plot of a map, the pickers.
Div == [kind |-> "div", text |-> "No IONEX data available for the given selection"]
Plot(tec_map, max_tec) == [kind |-> "plot", tec_map |-> tec_map, max_tec |-> max_tec]
Pickers == [kind |-> "pickers"]

\* _update_tec_map: the plots entry for a handler and the selections.
update_tec_map(h, sel) ==
    LET tec_map == get_tec_map(h.tec_maps, sel.hour)
    IN  IF tec_map = None THEN <<Div>>
        ELSE <<Plot(tec_map[1], sel.max_tec)>>

\* _get_ui_column: the elements of every entry, in the order of the dict.
get_ui_column(plots_) == <<Pickers>> \o plots_

BuiltFor(sel) == [analysis_center |-> sel.analysis_center, date_str |-> sel.date_str]

\* With no application the handler under construction is idle.
NoHandler ==
    /\ doc = AbsentDoc
    /\ ionex_str = None
    /\ lat = 0
    /\ lon = 0
    /\ pc = "init"
    /\ exponent = None
    /\ bounds = MapBounds
    /\ tec_maps = <<>>
    /\ k = 0
    /\ exc = ""
    /\ handler = None
    /\ call = NoCall

\* _update_ionex under the selections sel: the text is fetched, the handler
\* is built and assigned, the plot is remade and the UI updated; an
\* exception of the fetch or of IonexHandler(...) leaves the handler at that
\* point, with what it had written to the cache.
update_ionex(sel) ==
    LET path == cache_path(sel)
    IN  \E r \in app_get_ionex_str(files[path]) :
           \E h \in {IonexHandler(r.result)} :
               /\ files' = [files EXCEPT ![path] = r.file]
               /\ IF r.exc # ""
                  THEN /\ app_exc' = r.exc
                       /\ UNCHANGED <<ionex_handler, plots, curdoc_root>>
                  ELSE IF h.exc # ""
                  THEN /\ app_exc' = h.exc
                       /\ UNCHANGED <<ionex_handler, plots, curdoc_root>>
                  ELSE /\ app_exc' = ""
                       /\ ionex_handler' =
                            Some([built_for |-> BuiltFor(sel),
                                  exponent |-> h.handler[1].exponent,
                                  bounds |-> h.handler[1].bounds,
                                  tec_maps |-> h.handler[1].tec_maps])
                       /\ plots' = update_tec_map(h.handler[1], sel)
                       /\ curdoc_root' = get_ui_column(plots')

\* TecMapperApplication(cache_dir, starting_date) has returned: the initial
\* _update_ionex raised nothing.
InitApp ==
    /\ NoHandler
    /\ run = NoRun
    /\ app_init = TRUE
    /\ \E starting_date \in Dates :
          LET sel == InitialSelections(starting_date)
              path == cache_path(sel)
          IN  \E r \in app_get_ionex_str(NoFiles[path]) :
                 \E h \in {IonexHandler(r.result)} :
                     /\ r.exc = ""
                     /\ h.exc = ""
                     /\ selections = sel
                     /\ files = [NoFiles EXCEPT ![path] = r.file]
                     /\ ionex_handler =
                          Some([built_for |-> BuiltFor(sel),
                                exponent |-> h.handler[1].exponent,
                                bounds |-> h.handler[1].bounds,
                                tec_maps |-> h.handler[1].tec_maps])
                     /\ plots = update_tec_map(h.handler[1], sel)
                     /\ curdoc_root = get_ui_column(plots)
                     /\ app_exc = ""

\* _update_date_selection(attr, old, new)
UpdateDateSelection ==
    /\ app_init
    /\ \E new \in Dates :
          /\ selections' = [selections EXCEPT !.date_str = new]
          /\ update_ionex(selections')
    /\ UNCHANGED <<handler_vars, run, app_init>>

\* _update_analysis_center_selection(dropdown, event)
UpdateAnalysisCenterSelection ==
    /\ app_init
    /\ \E item \in Centers :
          /\ selections' = [selections EXCEPT !.analysis_center = item]
          /\ update_ionex(selections')
    /\ UNCHANGED <<handler_vars, run, app_init>>

\* _update_def_selection(attr, old, new, key), of the hour slider and of the
\* max-TEC slider.
UpdateDefSelection ==
    /\ app_init
    /\ \E key \in {"hour", "max_tec"} :
          \E new \in (IF key = "hour" THEN Hours ELSE MaxTecs) :
             selections' = [selections EXCEPT ![key] = new]
    /\ plots' = update_tec_map(ionex_handler[1], selections')
    /\ curdoc_root' = get_ui_column(plots')
    /\ app_exc' = ""
    /\ UNCHANGED <<handler_vars, files, run, app_init, ionex_handler>>

NextApp ==
    \/ UpdateDateSelection
    \/ UpdateAnalysisCenterSelection
    \/ UpdateDefSelection

SpecApp == InitApp /\ [][NextApp]_vars


\* ------------------------------------------------------------ downloader
\* A cache directory as earlier runs can have left it.
InitCache ==
    /\ NoHandler
    /\ NoApplication
    /\ run = NoRun
    /\ files \in [CachePaths -> FileKinds]

\* IonexDownloader(filename, year_century, doy, cache_path): __init__ calls
\* _get_ionex_str, which leaves by a return or by an exception.
GetIonexStr ==
    /\ \E path \in CachePaths :
          \E r \in get_ionex_str(files[path]) :
             /\ files' = [files EXCEPT ![path] = r.file]
             /\ run' = [path |-> path, before |-> files[path],
                        attempted |-> r.attempted, outcome |-> r.outcome,
                        exc |-> r.exc, result |-> r.result]
    /\ UNCHANGED <<handler_vars, app_vars>>

NextCache == GetIonexStr

SpecCache == InitCache /\ [][NextCache]_vars


\* ------------------------------------------------------------ claims
\* What the descriptions say of a document, for the claims below.
ExponentOK == {"absent", "m1", "dup", "dupint"}
ExpectedExponent(kind) == IF kind = "absent" THEN 0 ELSE -1

HeaderOK(d) ==
    /\ ~d.absent
    /\ d.exp \in ExponentOK
    /\ ~AxisMalformed(d.lat)
    /\ ~AxisMalformed(d.lon)

\* The header declares the grid the sections are written for.
DeclaresSectionGrid(d) ==
    /\ ~d.absent
    /\ d.exp \in ExponentOK
    /\ d.lat \in {"ionex", "dup"}
    /\ d.lon \in {"ionex", "dup"}

DocWellFormed(d) ==
    /\ DeclaresSectionGrid(d)
    /\ \A n \in 1..Len(d.sections) : d.sections[n].kind = "good"

ExpectedEpoch(sec) ==
    [year |-> 2020, month |-> 2, day |-> 29, hour |-> sec.hour,
     minute |-> sec.minute, second |-> 0, microsecond |-> 0]

ExpectedGrid(sec, exp_kind) ==
    [r \in 1..SectionRows |-> [c \in 1..SectionCols |->
        SectionValue(sec, r, c) * Scale
            * Pow10(ExpectedExponent(exp_kind) + MaxDownscale)]]

IsGood(sec) == sec.kind = "good"

MinOf(S) == CHOOSE x \in S : \A y \in S : x <= y

\* C1: get_tec_map(h) returns the first map, in the order of the list (the
\* order of the document), whose epoch has hour h, and None when no map has
\* it or the handler has no map; for a well-formed document that is the map
\* of the first section with that hour.
C1_FirstMapOfHour ==
    call.op = "get_tec_map" =>
        LET maps == handler[1].tec_maps
            hits == {n \in 1..Len(maps) : maps[n].epoch.hour = call.hour}
            secs == {n \in 1..Len(doc.sections) : doc.sections[n].hour = call.hour}
        IN  /\ hits = {} => call.ret = None
            /\ hits # {} => call.ret = Some(maps[MinOf(hits)])
            /\ DocWellFormed(doc) =>
                  IF secs = {} THEN call.ret = None
                  ELSE /\ call.ret # None
                       /\ call.ret[1].epoch = ExpectedEpoch(doc.sections[MinOf(secs)])
                       /\ call.ret[1].map_arr.a =
                             ExpectedGrid(doc.sections[MinOf(secs)], doc.exp)

\* Two different maps of the hour asked for, the earlier one returned.
C1_Witness ==
    /\ call.op = "get_tec_map"
    /\ call.ret # None
    /\ \E n \in 1..Len(handler[1].tec_maps) : \E m \in 1..Len(handler[1].tec_maps) :
          /\ n < m
          /\ handler[1].tec_maps[n].epoch.hour = call.hour
          /\ handler[1].tec_maps[m].epoch.hour = call.hour
          /\ handler[1].tec_maps[n] # handler[1].tec_maps[m]
          /\ call.ret = Some(handler[1].tec_maps[n])

\* C2: IonexHandler(None) returns a handler with no map, the default bounds
\* and exponent 0, whose get_tec_map is None for every hour.
C2_AbsentTextDocument ==
    /\ doc.absent => pc # "raised"
    /\ (doc.absent /\ pc = "done") =>
          /\ handler[1].tec_maps = <<>>
          /\ handler[1].bounds = MapBounds
          /\ handler[1].exponent = Some(0)
          /\ call.op = "get_tec_map" => call.ret = None

C4Malformed(sec) == sec.kind \in {"epoch5", "epochWord", "rowShort", "rowLong"}

\* C4: a section with a malformed timestamp line or a row of the wrong
\* length is skipped alone: the construction completes and the maps are
\* those of the well-formed sections, in order.
C4_MalformedEpochIsolated ==
    ( /\ DeclaresSectionGrid(doc)
      /\ \A n \in 1..Len(doc.sections) :
            IsGood(doc.sections[n]) \/ C4Malformed(doc.sections[n])
      /\ \E n \in 1..Len(doc.sections) : C4Malformed(doc.sections[n]) )
    => /\ pc # "raised"
       /\ pc = "done" =>
             LET good == SelectSeq(doc.sections, IsGood)
             IN  /\ Len(tec_maps) = Len(good)
                 /\ \A n \in 1..Len(good) : tec_maps[n].epoch = ExpectedEpoch(good[n])

\* C5: a latitude or longitude marker with a line before it that is not
\* three numbers makes the construction fail while the header is read, and
\* the caller never holds a handler.
C5_MalformedBoundAborts ==
    /\ (~doc.absent /\ AxisMalformed(doc.lat)) =>
          /\ pc \in {"init", "lat", "raised"}
          /\ handler = None
          /\ k = 0
    /\ (~doc.absent /\ AxisMalformed(doc.lon)) =>
          /\ pc \in {"init", "lat", "lon", "raised"}
          /\ handler = None
          /\ k = 0

\* The latitude was read and stored, the longitude line raised.
C5_Witness ==
    /\ pc = "raised"
    /\ exc = "ValueError"
    /\ doc.lat = "ionex"
    /\ doc.lon = "two"
    /\ bounds # MapBounds
    /\ handler = None

\* C6: LAT1=87.5, LAT2=-87.5, DLAT=2.5 and LON1=-180, LON2=180, DLON=5 are
\* stored as min, max and step and give 71 rows and 73 columns.
C6_GlobalGridCounts ==
    (~doc.absent /\ doc.lat = "spec" /\ doc.lon = "spec" /\ pc \in {"maps", "done"}) =>
        /\ bounds = [min_lat |-> 350, max_lat |-> -350, dlat |-> 10,
                     min_lon |-> -720, max_lon |-> 720, dlon |-> 20]
        /\ num_rows(bounds) = 71
        /\ num_cols(bounds) = 73

\* C7: a text with no START OF TEC MAP gives a handler with no map and the
\* construction does not raise, END OF TEC MAP lines or not.
C7_NoStartNoMaps ==
    (HeaderOK(doc) /\ ~Contains(ionex_str[1], START_OF_TEC_MAP)) =>
        /\ pc # "raised"
        /\ pc = "done" => tec_maps = <<>>

LowOf(a, b) == IF a <= b THEN a ELSE b
HighOf(a, b) == IF a <= b THEN b ELSE a

OutsideBounds(b, la, lo) ==
    \/ la < LowOf(b.min_lat, b.max_lat)
    \/ la > HighOf(b.min_lat, b.max_lat)
    \/ lo < LowOf(b.min_lon, b.max_lon)
    \/ lo > HighOf(b.min_lon, b.max_lon)

\* C8: get_tec with a coordinate outside the bounds ends in an out-of-bounds
\* error and returns no cell of the grid.
C8_OutsideRaises ==
    (call.op = "get_tec" /\ OutsideBounds(handler[1].bounds, lat, lon)) =>
        call.exc = "IndexError"

\* C9: on a grid of the default bounds, latitude 87.5 is row 0, latitude
\* -87.5 the last row, longitude -180 column 0; a coordinate inside the
\* bounds has its row and column inside the grid, and a grid point its own.
C9_DefaultGridIndexing ==
    (call.op = "get_tec" /\ handler[1].bounds = MapBounds) =>
        LET shape == handler[1].tec_maps[call.map].map_arr.shape
            b == MapBounds
        IN  /\ shape = <<71, 73>>
            /\ lat = b.max_lat => call.i = 0
            /\ lat = b.min_lat => call.i = shape[1] - 1
            /\ lon = b.min_lon => call.j = 0
            /\ lon = b.max_lon => call.j = shape[2] - 1
            /\ ~OutsideBounds(b, lat, lon) =>
                  /\ call.exc = ""
                  /\ call.i \in 0..(shape[1] - 1)
                  /\ call.j \in 0..(shape[2] - 1)
                  /\ call.row = call.i
                  /\ call.col = call.j
            /\ \A r \in 0..(shape[1] - 1) : lat = b.max_lat - r * b.dlat => call.i = r
            /\ \A c \in 0..(shape[2] - 1) : lon = b.min_lon + c * b.dlon => call.j = c

\* The southernmost latitude read from the last row.
C9_Witness ==
    /\ call.op = "get_tec"
    /\ handler[1].bounds = MapBounds
    /\ lat = MapBounds.min_lat
    /\ call.exc = ""
    /\ call.row = 70

LatFields(b) == <<b.min_lat, b.max_lat, b.dlat>>
LonFields(b) == <<b.min_lon, b.max_lon, b.dlon>>
Declared(bound_type_str, kind) ==
    LET n == AxisNumbers(bound_type_str, kind) IN <<n[1].v, n[2].v, n[3].v>>

\* C10: with the marker of one axis absent the header is read without
\* failure, that axis keeps its default bounds and the other axis has the
\* numbers of the first occurrence of its own marker.
C10_AbsentAxisKeepsDefault ==
    (~doc.absent /\ doc.exp \in ExponentOK) =>
        /\ doc.lat = "absent" => LatFields(bounds) = LatFields(MapBounds)
        /\ doc.lon = "absent" => LonFields(bounds) = LonFields(MapBounds)
        /\ (doc.lat = "absent" /\ AxisDeclared(doc.lon)) =>
              /\ pc = "raised" => k >= 1
              /\ k >= 1 => LonFields(bounds) = Declared("lon", doc.lon)
        /\ (doc.lon = "absent" /\ AxisDeclared(doc.lat)) =>
              /\ pc = "raised" => k >= 1
              /\ pc \in {"lon", "maps", "done"} =>
                    LatFields(bounds) = Declared("lat", doc.lat)
        /\ (doc.lat = "absent" /\ doc.lon = "absent") =>
              (pc = "raised" => k >= 1)

\* No latitude marker, two longitude markers: the handler is returned with
\* the default latitudes and the longitudes of the first declaration.
C10_Witness ==
    /\ pc = "done"
    /\ doc.lat = "absent"
    /\ doc.lon = "dup"
    /\ LatFields(handler[1].bounds) = LatFields(MapBounds)
    /\ LonFields(handler[1].bounds) = Declared("lon", "ionex")
    /\ LonFields(handler[1].bounds) # LonFields(MapBounds)

\* C11: for a present text the exponent is 0 when the EXPONENT marker is
\* absent; when the marker is present it is the single integer of the last
\* line before the marker's first occurrence, later occurrences being
\* ignored; and a present marker whose preceding line is not a single
\* integer makes the construction fail: no exponent is set and the caller
\* holds no handler.
ExponentMalformed == {"two", "float", "word", "first", "blank"}

C11_ExponentFromFirstMarker ==
    (~doc.absent /\ pc # "init") =>
        /\ doc.exp = "absent" => exponent = Some(0)
        /\ doc.exp \in {"m1", "dup", "dupint"} => exponent = Some(-1)
        /\ doc.exp \in ExponentMalformed =>
              /\ pc = "raised"
              /\ k = 0
              /\ exc \in {"ValueError", "IndexError"}
              /\ exponent = None
              /\ handler = None
        /\ (handler # None /\ doc.exp \in ExponentOK) =>
              handler[1].exponent = Some(ExpectedExponent(doc.exp))

\* C11: a document with two EXPONENT lines of different integers was
\* constructed, with the exponent of the first.
C11_Witness ==
    /\ doc.exp = "dupint"
    /\ pc = "done"
    /\ handler # None
    /\ handler[1].exponent = Some(-1)

\* C12: after any sequence of selection events following initialisation the
\* plots entry holds exactly one element and it corresponds to the current
\* selections: the handler is the one built for the selected date and
\* analysis centre, and the element is the message exactly when that handler
\* has no map for the selected hour, otherwise the plot of that hour's map
\* with the selected max TEC; the UI shows it; and an hour or max-TEC
\* change leaves the handler unchanged.
PlotsMatchSelections ==
    /\ Len(plots) = 1
    /\ ionex_handler # None
    /\ ionex_handler[1].built_for = BuiltFor(selections)
    /\ LET with_hour == {n \in 1..Len(ionex_handler[1].tec_maps) :
                           ionex_handler[1].tec_maps[n].epoch.hour = selections.hour}
       IN  IF with_hour = {} THEN plots[1] = Div
           ELSE plots[1] = Plot(ionex_handler[1].tec_maps[MinOf(with_hour)],
                                selections.max_tec)
    /\ curdoc_root = <<Pickers, plots[1]>>

C12_PlotsMatchSelections ==
    /\ [](app_init => PlotsMatchSelections)
    /\ [][UpdateDefSelection => UNCHANGED <<ionex_handler, files>>]_vars

\* C13: after _get_ionex_str completes with a cache path the cached file
\* either does not exist or is non-empty; a download was attempted exactly
\* when the cached file was missing or empty; a failed or empty download has
\* removed the file and returned None instead of raising; and the result is
\* None exactly when no non-empty file is left.
DownloadFailed == {"error", "broken"}

C13_CacheNeverHoldsEmpty ==
    run.path # <<>> =>
        /\ run.attempted <=> run.before \in {"missing", "empty"}
        /\ (run.attempted /\ run.outcome \in DownloadFailed \cup {"empty"}) =>
              /\ run.exc = ""
              /\ run.result = None
              /\ files[run.path] = "missing"
        /\ run.exc = "" =>
              /\ files[run.path] # "empty"
              /\ run.result = None <=> ~ionex_file_ok(files[run.path])

====
